---- MODULE Spec2Model ----
(***************************************************************************)
(* The edge-side Application / Agent subsystem of the metaserver:          *)
(* Application (status, reference count, completion signal), Agent         *)
(* (Generate, Apply, doApply, GC) and the reply built by Center.Response.  *)
(* Callers, doApply goroutines and the GC sweeper are interleaved at the   *)
(* granularity of their accesses to the shared Application and table.      *)
(***************************************************************************)
EXTENDS Integers, Sequences, FiniteSets, TLC

\* ---------------------------------------------------------------- bounds
NumCallers == 2
MaxApps == 2
MaxSends == 2
MaxRequests == 3
MaxTime == 6
NumRequests == 1
MaxExtraClose == 1
MaxMessages == 1
MaxEvents == 6

\* time.Minute*5 in Agent.GC; the clock counts minutes
GCWindow == 5

Callers == 1..NumCallers
AppIds == 1..MaxApps
SendIds == 1..MaxSends

\* ------------------------------------------------------------ data model
\* applicationStatus
PreApplying == "PreApplying"
InApplying == "InApplying"
InProcessing == "InProcessing"
Approved == "Approved"
Rejected == "Rejected"
Failed == "Failed"
Completed == "Completed"

\* The identity-forming fields of a request, each a byte string.
ReqGet ==
  [Nodename |-> <<"n">>, Key |-> <<"k">>, Verb |-> <<"get">>, Option |-> <<>>,
   ReqBody |-> <<>>, Subresource |-> <<>>, Token |-> <<"t">>]

ReqList ==
  [Nodename |-> <<"n">>, Key |-> <<"k">>, Verb |-> <<"list">>, Option |-> <<>>,
   ReqBody |-> <<>>, Subresource |-> <<>>, Token |-> <<"t">>]

AllRequests == <<ReqGet, ReqList>>

\* Requests that differ in where the bytes "status" stand: the subresource
\* of one, the head of the token of the other
ReqStatus ==
  [Nodename |-> <<"n">>, Key |-> <<"k">>, Verb |-> <<"get">>, Option |-> <<>>,
   ReqBody |-> <<>>, Subresource |-> <<"status">>, Token |-> <<"t">>]

ReqStatusToken ==
  [Nodename |-> <<"n">>, Key |-> <<"k">>, Verb |-> <<"get">>, Option |-> <<>>,
   ReqBody |-> <<>>, Subresource |-> <<>>, Token |-> <<"status", "t">>]

\* Requests that differ in where the bytes "{}" stand: the option of one,
\* the request body of the other
ReqOption ==
  [Nodename |-> <<"n">>, Key |-> <<"k">>, Verb |-> <<"get">>, Option |-> <<"{}">>,
   ReqBody |-> <<>>, Subresource |-> <<>>, Token |-> <<"t">>]

ReqBody ==
  [Nodename |-> <<"n">>, Key |-> <<"k">>, Verb |-> <<"get">>, Option |-> <<>>,
   ReqBody |-> <<"{}">>, Subresource |-> <<>>, Token |-> <<"t">>]

\* No request
NoRequest ==
  [Nodename |-> <<>>, Key |-> <<>>, Verb |-> <<>>, Option |-> <<>>,
   ReqBody |-> <<>>, Subresource |-> <<>>, Token |-> <<>>]

Requests == {AllRequests[k] : k \in 1..(IF NumRequests < 2 THEN NumRequests ELSE 2)}

\* Application.Identifier: the hash of the concatenated fields; sha256 is
\* taken to be collision-free, so the digest is represented by its preimage.
Identifier(r) ==
  r.Nodename \o r.Key \o r.Verb \o r.Option \o r.ReqBody \o r.Subresource \o r.Token

Fingerprints == {Identifier(r) : r \in Requests}

\* The requests of callers on one node that ask for different things
DistinctRequests == {ReqStatus, ReqStatusToken, ReqOption, ReqBody}
DistinctFingerprints == {Identifier(r) : r \in DistinctRequests}

\* Reason texts: none, the two doApply failures, a plain error from Center.
NoReason == ""
ReasonAccess == "failed to access cloud Application center"
ReasonResp == "failed to get Application from resp msg"
ReasonCenter == "center error"

\* Error: the zero StatusError or a structured API error.
NoError == "none"
ApiError == "apistatus"

\* RespBody: empty or the serialized result object.
NoBody == "empty"
ObjBody == "object"

\* No Application object at this address.
NoApp ==
  [ID |-> <<>>, req |-> ReqGet, Status |-> "", Reason |-> NoReason,
   Error |-> NoError, RespBody |-> NoBody, count |-> 0, timestamp |-> 0,
   done |-> FALSE, handed |-> 0, closed |-> 0, calls |-> 0]

\* The outcome a caller got from Apply.
NoRet == [kind |-> "none", val |-> "", status |-> "", waited |-> FALSE]

IdleCaller ==
  [pc |-> "idle", req |-> NoRequest, app |-> 0, tgt |-> 0, rel |-> FALSE, ret |-> NoRet]

NoSend == [pc |-> "none", app |-> 0, Reason |-> NoReason, Error |-> NoError,
           RespBody |-> NoBody]

\* applicationVerb, and a verb outside the set
Get == "get"
List == "list"
Watch == "watch"
Create == "create"
Delete == "delete"
Update == "update"
UpdateStatus == "updatestatus"
Patch == "patch"
OtherVerb == "proxy"
\* a verb set that takes every verb in
VerbsAndOther == {Get, List, Watch, Create, Delete, Update, UpdateStatus, Patch, OtherVerb}
Verbs == {Get, List, Watch, Create, Delete, Update, UpdateStatus, Patch}

\* An error value: nil, an apierrors.APIStatus error, or any other error;
\* text is what err.Error() / the status carries.
NilErr == [kind |-> "nil", text |-> ""]
ApiErr == [kind |-> "api", text |-> ApiError]
PlainErr == [kind |-> "plain", text |-> ReasonCenter]
ErrToken == [kind |-> "plain", text |-> "invalid request token format or length"]
ErrDenied == [kind |-> "plain", text |-> "authorize failed"]
ErrOption == [kind |-> "plain", text |-> "failed to prase Option bytes"]
ErrBody == [kind |-> "plain", text |-> "failed to parse ReqBody bytes"]
ErrList == [kind |-> "plain", text |-> "get current list error"]
ErrListener == [kind |-> "plain", text |-> "failed to add listener"]
ErrUnsupported == [kind |-> "plain", text |-> "unsupported Application Verb type"]
\* what the API server answers: no permission, no such object, no connection
ErrForbidden == [kind |-> "api", text |-> "forbidden"]
ErrNotFound == [kind |-> "api", text |-> "not found"]
ErrNet == [kind |-> "plain", text |-> "connection refused"]

\* Application.Token as received, split at the blanks
TokenAdmin == <<"Bearer", "admin">>
TokenGuest == <<"bearer", "guest">>
TokenBare == <<"admin">>
TokenBasic == <<"Basic", "admin">>
TokenEmpty == <<"Bearer", "">>
Tokens == {TokenAdmin, TokenGuest, TokenBare, TokenBasic, TokenEmpty}

\* The bearer tokens the API server lets perform the request
Authorized == {"admin"}

\* Application.Option as received: bytes that do not decode (ok is FALSE),
\* or the options with their label and field selectors (sets of terms)
BadOption == [ok |-> FALSE, Label |-> {}, Field |-> {}]
Options ==
  {BadOption} \cup
  {[ok |-> TRUE, Label |-> l, Field |-> f] :
     l \in {{}, {"app=web"}}, f \in {{}, {"status.phase=Running"}}}

\* Application.Key, as metaserver.ParseKey splits it
Keys == {[gvr |-> "apps/v1/deployments", ns |-> n, name |-> "web"] : n \in {"", "default"}}

\* The edge nodes that send Applications, and the IDs of their messages
Nodes == {"edge1", "edge2"}
MessageIds == {"m1", "m2"}

\* The Applications a message can decode to (sent by doApply: InApplying)
CenterApps ==
  [Nodename : Nodes, Key : Keys, Verb : Verbs \cup {OtherVerb}, Token : Tokens,
   Option : Options, bodyOk : BOOLEAN, Subresource : {"", "status"},
   Status : {InApplying}, Reason : {NoReason}, Error : {NoError}, RespBody : {NoBody}]

NoCenterApp ==
  [Nodename |-> "", Key |-> [gvr |-> "", ns |-> "", name |-> ""], Verb |-> "", Token |-> <<>>,
   Option |-> BadOption, bodyOk |-> FALSE, Subresource |-> "",
   Status |-> "", Reason |-> NoReason, Error |-> NoError, RespBody |-> NoBody]

\* model.Message: its ID and whether its content decodes to an Application
Messages ==
  {[id |-> "m1", decodes |-> FALSE, app |-> NoCenterApp]} \cup
  {[id |-> i, decodes |-> TRUE, app |-> a] : i \in MessageIds, a \in CenterApps}

NoMessage == [id |-> "", decodes |-> FALSE, app |-> NoCenterApp]

\* dynamic.Interface: the shared default client or one bound to a token
NoClient == [scoped |-> FALSE, token |-> "none"]
DefaultClient == [scoped |-> FALSE, token |-> ""]

NoRetval == [err |-> NilErr, hasResp |-> FALSE]

\* Center between two messages; gate is the RequireAuthorization feature
IdleCenter ==
  [pc |-> "idle", gate |-> FALSE, msg |-> NoMessage, app |-> NoCenterApp,
   kube |-> NoClient, log |-> <<>>, ret |-> NoRetval, out |-> <<>>, n |-> 0]

\* ------------------------------------------------- device twin CommWorker
\* DTContext.State
Connected == "connected"
Disconnected == "disconnected"

\* The content of a LifeCycle message
CloudConnected == "cloud_connected"
CloudDisconnected == "cloud_disconnected"

\* The IDs of the messages handed to the worker, and an ID of no message
\* the worker has seen
MsgIds == {"a", "b"}
StrangerId == "z"

\* The events of CommWorker.Start's loop, and none yet
NoEvent == [kind |-> "none", id |-> ""]

\* The worker as started: the context of the device twin (State,
\* ConfirmMap as the set of its keys), the number of times each message was
\* sent to the hub, the sends to the event hub and the detail requests, the
\* event handled last and the number of events handled
IdleComm ==
  [running |-> TRUE, State |-> Disconnected, ConfirmMap |-> {},
   hub |-> [m \in MsgIds |-> 0], edge |-> 0, detail |-> 0,
   last |-> NoEvent, n |-> 0]

VARIABLES
  Applications,  \* Agent.Applications: fingerprint -> Application (0: no entry)
  apps,          \* the Application objects
  callers,       \* each caller's position in Generate / Apply / Close
  sends,         \* the doApply goroutines
  gc,            \* the Agent.GC sweeper: in Range, or about to Delete key
  now,           \* wall clock, in minutes
  nReq,          \* Generate calls made so far
  center,        \* Center: the message in process, the calls made, the reply
  comm           \* the device twin's CommWorker: its DTContext and what it sent

agentVars == <<Applications, apps, callers, sends, gc, now, nReq>>

vars == <<Applications, apps, callers, sends, gc, now, nReq, center, comm>>

Init ==
  /\ Applications = [f \in Fingerprints |-> 0]
  /\ apps = [a \in AppIds |-> NoApp]
  /\ callers = [c \in Callers |-> IdleCaller]
  /\ sends = [i \in SendIds |-> NoSend]
  /\ gc = [pc |-> "range", key |-> <<>>]
  /\ now = 1
  /\ nReq = 0
  /\ center = IdleCenter
  /\ comm = IdleComm

\* ------------------------------------------------- Application operations
\* newApplication: a fresh Application, already cited once (app.add()).
newApplication(r) ==
  [ID |-> <<>>, req |-> r, Status |-> PreApplying, Reason |-> NoReason,
   Error |-> NoError, RespBody |-> NoBody, count |-> 1, timestamp |-> 0,
   done |-> FALSE, handed |-> 0, closed |-> 0, calls |-> 0]

\* Application.add
add(a) == [a EXCEPT !.count = @ + 1]

\* Close without the test for a zero count
CloseUnguarded(a, t) ==
  [a EXCEPT !.timestamp = t,
            !.count = @ - 1,
            !.Status = IF a.count - 1 = 0 THEN Completed ELSE @]

\* Close that stamps the time also when it finds the count at zero
CloseRestamps(a, t) ==
  IF a.count = 0
  THEN [a EXCEPT !.timestamp = t]
  ELSE [a EXCEPT !.timestamp = t,
                 !.count = @ - 1,
                 !.Status = IF a.count - 1 = 0 THEN Completed ELSE @]

\* Application.Close at time t
Close(a, t) ==
  IF a.count = 0
  THEN a
  ELSE [a EXCEPT !.timestamp = t,
                 !.count = @ - 1,
                 !.Status = IF a.count - 1 = 0 THEN Completed ELSE @]

\* Application.LastCloseTime (0 is the zero time)
LastCloseTime(a) ==
  IF a.count = 0 /\ a.timestamp # 0 THEN a.timestamp ELSE 0

\* Call that flips the state of the context
CallToggles(a) == [a EXCEPT !.done = ~@]

\* Application.Call: cancel the current context
Call(a) == [a EXCEPT !.done = TRUE]

\* Reset that also clears the memoized ID
ResetForgetsID(a) ==
  [a EXCEPT !.done = FALSE, !.Reason = NoReason, !.RespBody = NoBody, !.ID = <<>>]

\* Application.Reset: a new, uncancelled context; Reason and RespBody cleared
Reset(a) == [a EXCEPT !.done = FALSE, !.Reason = NoReason, !.RespBody = NoBody]

\* ------------------------------------------------------------------ Agent
\* LoadOrStore that never finds the entry (a plain Store)
LoadedNever(f) == FALSE

\* sync.Map LoadOrStore found an entry for the fingerprint
Loaded(f) == Applications[f] # 0

FreeApp == CHOOSE a \in AppIds : apps[a] = NoApp /\ \A b \in AppIds : apps[b] = NoApp => a <= b

\* Generate, LoadOrStore stored the new Application
GenerateStore(c, r) ==
  LET f == Identifier(r) IN
  /\ callers[c].pc = "idle"
  /\ nReq < MaxRequests
  /\ ~Loaded(f)
  /\ \E a \in AppIds : apps[a] = NoApp
  /\ apps' = [apps EXCEPT ![FreeApp] =
                [newApplication(r) EXCEPT !.ID = f, !.handed = 1]]
  /\ Applications' = [Applications EXCEPT ![f] = FreeApp]
  /\ callers' = [callers EXCEPT ![c] = [IdleCaller EXCEPT !.pc = "generated", !.req = r, !.app = FreeApp]]
  /\ nReq' = nReq + 1
  /\ UNCHANGED <<sends, gc, now, center, comm>>

\* Generate, LoadOrStore loaded the registered Application (add() comes next)
GenerateLoad(c, r) ==
  LET f == Identifier(r) IN
  /\ callers[c].pc = "idle"
  /\ nReq < MaxRequests
  /\ Loaded(f)
  /\ callers' = [callers EXCEPT ![c] = [IdleCaller EXCEPT !.pc = "adding", !.req = r,
                                                      !.app = Applications[f]]]
  /\ nReq' = nReq + 1
  /\ UNCHANGED <<Applications, apps, sends, gc, now, center, comm>>

\* Generate, app.add() on the loaded Application, and return
GenerateAdd(c) ==
  LET a == callers[c].app IN
  /\ callers[c].pc = "adding"
  /\ apps' = [apps EXCEPT ![a] = [add(apps[a]) EXCEPT !.handed = @ + 1]]
  /\ callers' = [callers EXCEPT ![c].pc = "generated"]
  /\ UNCHANGED <<Applications, sends, gc, now, nReq, center, comm>>

\* Apply's return after Wait without the test for Rejected
WaitResultNoRejected(a) ==
  IF a.Status # Approved
  THEN [kind |-> "reason", val |-> a.Reason, status |-> a.Status, waited |-> TRUE]
  ELSE [kind |-> "nil", val |-> "", status |-> a.Status, waited |-> TRUE]

\* What Apply returns after Wait (lines 621-627)
WaitResult(a) ==
  IF a.Status = Rejected
  THEN [kind |-> "error", val |-> a.Error, status |-> a.Status, waited |-> TRUE]
  ELSE IF a.Status # Approved
       THEN [kind |-> "reason", val |-> a.Reason, status |-> a.Status, waited |-> TRUE]
       ELSE [kind |-> "nil", val |-> "", status |-> a.Status, waited |-> TRUE]

\* What Apply returns at once from the switch (cases Rejected, Failed, Approved)
CachedResult(a) ==
  IF a.Status = Rejected
  THEN [kind |-> "error", val |-> a.Error, status |-> a.Status, waited |-> FALSE]
  ELSE IF a.Status = Failed
       THEN [kind |-> "reason", val |-> a.Reason, status |-> a.Status, waited |-> FALSE]
       ELSE [kind |-> "nil", val |-> "", status |-> a.Status, waited |-> FALSE]

\* The switch without the case Failed: a Failed Application is waited on
ApplyCaseFailedWaits(st) ==
  CASE st = PreApplying -> "send"
    [] st = Completed -> "resetsend"
    [] st \in {Rejected, Approved} -> "return"
    [] OTHER -> "wait"

\* The switch with Failed treated like PreApplying: a Failed Application is sent again
ApplyCaseFailedResends(st) ==
  CASE st \in {PreApplying, Failed} -> "send"
    [] st = Completed -> "resetsend"
    [] st \in {Rejected, Approved} -> "return"
    [] OTHER -> "wait"

\* Apply's switch on the status: start doApply, Reset and start doApply,
\* return the stored outcome, or only wait
ApplyCase(st) ==
  CASE st = PreApplying -> "send"
    [] st = Completed -> "resetsend"
    [] st \in {Rejected, Failed, Approved} -> "return"
    [] OTHER -> "wait"

FreeSend == CHOOSE i \in SendIds : sends[i] = NoSend /\ \A j \in SendIds : sends[j] = NoSend => i <= j

\* Apply: the fingerprint is not in the table
ApplyUnregistered(c) ==
  /\ callers[c].pc = "generated"
  /\ Applications[apps[callers[c].app].ID] = 0
  /\ callers' = [callers EXCEPT ![c].pc = "applied",
                                ![c].ret = [kind |-> "unregistered", val |-> "",
                                            status |-> "", waited |-> FALSE]]
  /\ UNCHANGED <<Applications, apps, sends, gc, now, nReq, center, comm>>

\* Apply: Load, the switch on the status, Reset and go doApply
ApplyEnter(c) ==
  LET t == Applications[apps[callers[c].app].ID]
      case == ApplyCase(apps[t].Status) IN
  /\ callers[c].pc = "generated"
  /\ t # 0
  /\ IF case = "return"
     THEN /\ callers' = [callers EXCEPT ![c].pc = "applied", ![c].tgt = t,
                                        ![c].ret = CachedResult(apps[t])]
          /\ UNCHANGED <<apps, sends>>
     ELSE /\ IF case \in {"send", "resetsend"}
             THEN /\ \E i \in SendIds : sends[i] = NoSend
                  /\ sends' = [sends EXCEPT ![FreeSend] = [NoSend EXCEPT !.pc = "start", !.app = t]]
             ELSE UNCHANGED sends
          /\ apps' = IF case = "resetsend" THEN [apps EXCEPT ![t] = Reset(apps[t])] ELSE apps
          \* Reset cancels the context the blocked callers wait on
          /\ callers' = [d \in Callers |->
                IF d = c THEN [callers[c] EXCEPT !.pc = "waitcall", !.tgt = t]
                ELSE IF case = "resetsend" /\ callers[d].pc = "blocked" /\ callers[d].tgt = t
                     THEN [callers[d] EXCEPT !.rel = TRUE]
                     ELSE callers[d]]
  /\ UNCHANGED <<Applications, gc, now, nReq, center, comm>>

\* Apply: app.Wait() reads the current context and blocks on it
ApplyWait(c) ==
  /\ callers[c].pc = "waitcall"
  /\ callers' = [callers EXCEPT ![c].pc = "blocked",
                                ![c].rel = apps[callers[c].tgt].done]
  /\ UNCHANGED <<Applications, apps, sends, gc, now, nReq, center, comm>>

\* Apply: the context is done; inspect the status and return
ApplyReturn(c) ==
  /\ callers[c].pc = "blocked"
  /\ callers[c].rel \/ apps[callers[c].tgt].done
  /\ callers' = [callers EXCEPT ![c].pc = "applied", ![c].rel = FALSE,
                                ![c].ret = WaitResult(apps[callers[c].tgt])]
  /\ UNCHANGED <<Applications, apps, sends, gc, now, nReq, center, comm>>

\* The caller is done with the Application: app.Close()
CloseCall(c) ==
  LET a == callers[c].app IN
  /\ callers[c].pc = "applied"
  /\ apps' = [apps EXCEPT ![a] =
                [Close(apps[a], now) EXCEPT !.closed = IF apps[a].count > 0 THEN @ + 1 ELSE @,
                                            !.calls = @ + 1]]
  /\ callers' = [callers EXCEPT ![c] = IdleCaller]
  /\ UNCHANGED <<Applications, sends, gc, now, nReq, center, comm>>

\* A caller that has closed its citation calls app.Close() once more
CloseAgain(a) ==
  /\ apps[a] # NoApp
  /\ apps[a].calls > 0
  /\ apps[a].calls < apps[a].handed + MaxExtraClose
  /\ apps' = [apps EXCEPT ![a] =
                [Close(apps[a], now) EXCEPT !.closed = IF apps[a].count > 0 THEN @ + 1 ELSE @,
                                            !.calls = @ + 1]]
  /\ UNCHANGED <<Applications, callers, sends, gc, now, nReq, center, comm>>

\* ----------------------------------------------------------- Center reply
\* Center.Response: the Application sent back, from the Application received
\* (m), the final status, the error (nil, an APIStatus error, any other
\* error) and whether there is a result to serialize.
Response(m, status, err, hasResp) ==
  [Status |-> status,
   Reason |-> IF err.kind = "plain" THEN err.text ELSE m.Reason,
   Error |-> IF err.kind = "api" THEN err.text ELSE m.Error,
   RespBody |-> IF hasResp THEN ObjBody ELSE m.RespBody]

\* Process that answers Approved whatever ProcessApplication returned
ProcessAlwaysApproved(m, err, hasResp) == Response(m, Approved, err, hasResp)

\* Center.Process: Rejected with the error, or Approved with the result
Process(m, err, hasResp) ==
  IF err # NilErr
  THEN Response(m, Rejected, err, FALSE)
  ELSE Response(m, Approved, NilErr, hasResp)

\* The replies Center can give to the Application received
Replies(m) == {Process(m, err, hasResp) : err \in {NilErr, ApiErr, PlainErr}, hasResp \in BOOLEAN}

\* ----------------------------------------------------------------- Center
\* strings.ToLower on the first word of the token
ToLower(w) == IF w = "Bearer" THEN "bearer" ELSE IF w = "Basic" THEN "basic" ELSE w

\* generateNewConfig that takes any scheme and any length: the last word is
\* the bearer token
generateNewConfigAnyScheme(raw) ==
  IF Len(raw) = 0
  THEN [err |-> ErrToken, BearerToken |-> ""]
  ELSE [err |-> NilErr, BearerToken |-> raw[Len(raw)]]

\* Center.generateNewConfig: the rest.Config carrying the bearer token
generateNewConfig(raw) ==
  IF Len(raw) < 2 \/ ToLower(raw[1]) # "bearer" \/ raw[2] = ""
  THEN [err |-> ErrToken, BearerToken |-> ""]
  ELSE [err |-> NilErr, BearerToken |-> raw[2]]

\* createKubeClient that always hands out the shared default client
createKubeClientShared(gate, app) == [err |-> NilErr, client |-> DefaultClient]

\* Center.createKubeClient
createKubeClient(gate, app) ==
  IF ~gate
  THEN [err |-> NilErr, client |-> DefaultClient]
  ELSE LET cfg == generateNewConfig(app.Token) IN
       IF cfg.err # NilErr
       THEN [err |-> cfg.err, client |-> NoClient]
       ELSE [err |-> NilErr, client |-> [scoped |-> TRUE, token |-> cfg.BearerToken]]

\* An access review that allows every token
ReviewAllowsAll(tok) == {NilErr}

\* What SelfSubjectAccessReviews().Create can come to for a bearer token:
\* allowed (nil), not allowed, or the call fails
ReviewOutcomes(tok) == {IF tok \in Authorized THEN NilErr ELSE ErrDenied, ErrNet}

\* What a call on the resource API through a client can come to
BackendErrors(k) ==
  IF k.scoped /\ k.token \notin Authorized
  THEN {ErrForbidden, ErrNet}
  ELSE {NilErr, ErrNotFound, ErrNet}

\* ToListener that leaves the namespace of the key out of the selector
ToListenerAnyNamespace(app, option) ==
  [nodename |-> app.Nodename, gvr |-> app.Key.gvr,
   Label |-> option.Label, Field |-> option.Field]

\* Application.ToListener: the listener for the decoded ListOptions
ToListener(app, option) ==
  [nodename |-> app.Nodename,
   gvr |-> app.Key.gvr,
   Label |-> option.Label,
   Field |-> IF app.Key.ns # ""
             THEN option.Field \cup {"metadata.namespace=" \o app.Key.ns}
             ELSE option.Field]

NoListener == [nodename |-> "", gvr |-> "", Label |-> {}, Field |-> {}]

\* One call made by Center: an access review, a call on the resource API
\* (op is the verb) or HandlerCenter.AddListener
Effect(op, client, sub, listener) ==
  [op |-> op, client |-> client, sub |-> sub, listener |-> listener]

\* The verbs whose request body is decoded, and those that return an object
NeedsBody(v) == v \in {Create, Update, UpdateStatus}
ReturnsObject(v) == v \in {List, Get, Create, Update, UpdateStatus, Patch}

\* The subresource handed to the resource API call
SubresourceArg(app) ==
  IF app.Verb \in {Create, Update} THEN app.Subresource
  ELSE IF app.Verb = UpdateStatus THEN "status"
  ELSE ""

\* Process: a message arrives and msgToApplication fails; the message is dropped
CenterDrop(m) ==
  /\ center.pc = "idle"
  /\ center.n < MaxMessages
  /\ ~m.decodes
  /\ center' = [IdleCenter EXCEPT !.gate = center.gate, !.msg = m, !.n = center.n + 1]
  /\ UNCHANGED <<agentVars, comm>>

\* Process: a message arrives and decodes to an Application
CenterReceive(m) ==
  /\ center.pc = "idle"
  /\ center.n < MaxMessages
  /\ m.decodes
  /\ center' = [IdleCenter EXCEPT !.pc = "process", !.gate = center.gate, !.msg = m,
                                  !.app = m.app, !.n = center.n + 1]
  /\ UNCHANGED <<agentVars, comm>>

\* ProcessApplication up to the switch: InProcessing, then the client for
\* the verbs other than watch
CenterClient ==
  LET app == center.app
      k == createKubeClient(center.gate, app) IN
  /\ center.pc = "process"
  /\ app.Verb # Watch
  /\ center' = IF k.err # NilErr
               THEN [center EXCEPT !.pc = "respond", !.app.Status = InProcessing,
                                   !.ret = [err |-> k.err, hasResp |-> FALSE]]
               ELSE [center EXCEPT !.pc = "dispatch", !.app.Status = InProcessing,
                                   !.kube = k.client]
  /\ UNCHANGED <<agentVars, comm>>

\* ProcessApplication up to the switch: InProcessing, then
\* authorizeApplication for verb watch
CenterAuthorize ==
  LET app == center.app
      cfg == generateNewConfig(app.Token) IN
  /\ center.pc = "process"
  /\ app.Verb = Watch
  /\ IF ~center.gate
     THEN center' = [center EXCEPT !.pc = "dispatch", !.app.Status = InProcessing]
     ELSE IF cfg.err # NilErr
     THEN center' = [center EXCEPT !.pc = "respond", !.app.Status = InProcessing,
                                   !.ret = [err |-> cfg.err, hasResp |-> FALSE]]
     ELSE \E o \in ReviewOutcomes(cfg.BearerToken) :
            center' = [center EXCEPT
                         !.pc = IF o = NilErr THEN "dispatch" ELSE "respond",
                         !.app.Status = InProcessing,
                         !.log = Append(@, Effect("review", [scoped |-> TRUE, token |-> cfg.BearerToken],
                                                  app.Subresource, NoListener)),
                         !.ret = [err |-> o, hasResp |-> FALSE]]
  /\ UNCHANGED <<agentVars, comm>>

\* ProcessApplication, the switch on the verb
CenterDispatch ==
  LET app == center.app
      v == app.Verb IN
  /\ center.pc = "dispatch"
  /\ IF v \notin Verbs
     THEN center' = [center EXCEPT !.pc = "respond",
                                   !.ret = [err |-> ErrUnsupported, hasResp |-> FALSE]]
     ELSE IF ~app.Option.ok
     THEN center' = [center EXCEPT !.pc = "respond",
                                   !.ret = [err |-> ErrOption, hasResp |-> FALSE]]
     ELSE IF NeedsBody(v) /\ ~app.bodyOk
     THEN center' = [center EXCEPT !.pc = "respond",
                                   !.ret = [err |-> ErrBody, hasResp |-> FALSE]]
     ELSE IF v = Watch
     THEN \E e \in {NilErr, PlainErr} :
            center' = [center EXCEPT
                         !.pc = "respond",
                         !.log = Append(@, Effect("AddListener", DefaultClient, "",
                                                  ToListener(app, app.Option))),
                         !.ret = [err |-> IF e = NilErr THEN NilErr ELSE ErrListener,
                                  hasResp |-> FALSE]]
     ELSE \E e \in BackendErrors(center.kube) :
            center' = [center EXCEPT
                         !.pc = "respond",
                         !.log = Append(@, Effect(v, center.kube, SubresourceArg(app), NoListener)),
                         !.ret = [err |-> IF v = List /\ e # NilErr THEN ErrList ELSE e,
                                  hasResp |-> e = NilErr /\ ReturnsObject(v)]]
  /\ UNCHANGED <<agentVars, comm>>

\* What ProcessApplication hands to Response as respContent: nothing, or
\* what the API server returned; redacted names the node for which
\* filter.MessageFilter has redacted it ("" when it has not)
NoContent == [present |-> FALSE, redacted |-> ""]
RawContent == [present |-> TRUE, redacted |-> ""]

\* filter.MessageFilter: the content with the fields redacted for the node
MessageFilter(content, node) == [content EXCEPT !.redacted = node]

\* A Response that filters the content of every verb
FilterContentEveryVerb(app, content) ==
  IF content.present THEN MessageFilter(content, app.Nodename) ELSE content

\* Center.Response: the content that toBytes serializes into RespBody
FilterContent(app, content) ==
  IF content.present /\ app.Verb \in {List, Get}
  THEN MessageFilter(content, app.Nodename)
  ELSE content

\* A reply message that is not correlated with the request
ReplyMessageNoParent(app, parentID) == [parent |-> "", node |-> app.Nodename]

\* Center.Response: the message built, model.NewMessage(parentID) routed to
\* the resource of the Application's node
ReplyMessage(app, parentID) == [parent |-> parentID, node |-> app.Nodename]

\* Process calls Response: the reply is built and handed to the message
\* layer, which may fail to send it
CenterRespond ==
  LET reply == Process(center.app, center.ret.err, center.ret.hasResp)
      msg == ReplyMessage(center.app, center.msg.id) IN
  /\ center.pc = "respond"
  /\ \E sent \in BOOLEAN :
       center' = [center EXCEPT
                    !.pc = "idle",
                    !.app.Status = reply.Status,
                    !.app.Reason = reply.Reason,
                    !.app.Error = reply.Error,
                    !.app.RespBody = reply.RespBody,
                    !.out = Append(@, [parent |-> msg.parent,
                                       node |-> msg.node,
                                       Status |-> reply.Status,
                                       Reason |-> reply.Reason,
                                       Error |-> reply.Error,
                                       RespBody |-> reply.RespBody,
                                       payload |-> FilterContent(center.app,
                                                     IF center.ret.hasResp /\ reply.Status = Approved
                                                     THEN RawContent ELSE NoContent),
                                       sent |-> sent])]
  /\ UNCHANGED <<agentVars, comm>>

\* ------------------------------------------------------------- CommWorker
\* dealSendToCloud that sends whatever the state of the connection
dealSendToCloudAlways(ctx, m) ==
  [ctx EXCEPT !.hub[m] = @ + 1, !.ConfirmMap = @ \cup {m}]

\* dealSendToCloud for a *model.Message with ID m: nothing when the cloud is
\* disconnected, else the message goes to the hub and into the ConfirmMap
dealSendToCloud(ctx, m) ==
  IF ctx.State = Disconnected
  THEN ctx
  ELSE [ctx EXCEPT !.hub[m] = @ + 1, !.ConfirmMap = @ \cup {m}]

\* dealConfirm for a *model.Message with the given parent ID
dealConfirm(ctx, parent) == [ctx EXCEPT !.ConfirmMap = @ \ {parent}]

\* detailRequest: a new message without parent goes to the hub and is not
\* put into the ConfirmMap
detailRequest(ctx) == [ctx EXCEPT !.detail = @ + 1]

\* dealLifeCycle for a *model.Message with the given content
dealLifeCycle(ctx, info) ==
  IF info = CloudConnected
  THEN [(IF ctx.State = Disconnected THEN detailRequest(ctx) ELSE ctx)
          EXCEPT !.State = Connected]
  ELSE IF info = CloudDisconnected
  THEN [ctx EXCEPT !.State = Disconnected]
  ELSE ctx

\* checkConfirm: Range over the ConfirmMap, the callback of each entry's
\* action (SendToCloud) is called with the stored message
RECURSIVE RangeConfirm(_, _)
RangeConfirm(ctx, todo) ==
  IF todo = {}
  THEN ctx
  ELSE LET m == CHOOSE x \in todo : TRUE IN
       RangeConfirm(dealSendToCloud(ctx, m), todo \ {m})

checkConfirm(ctx) == RangeConfirm(ctx, ctx.ConfirmMap)

\* One turn of the loop of Start has handled event e
Handle(ctx, e) == [ctx EXCEPT !.last = e, !.n = @ + 1]

\* Start: a DTMessage with action SendToCloud arrives; isMessage tells
\* whether it carries a *model.Message
CommSendToCloud(m, isMessage) ==
  /\ comm.running
  /\ comm.n < MaxEvents
  /\ comm' = Handle(IF isMessage THEN dealSendToCloud(comm, m) ELSE comm,
                    [kind |-> IF isMessage THEN "SendToCloud" ELSE "BadSendToCloud", id |-> m])
  /\ UNCHANGED <<agentVars, center>>

\* Start: a DTMessage with action SendToEdge arrives
CommSendToEdge(m) ==
  /\ comm.running
  /\ comm.n < MaxEvents
  /\ comm' = Handle([comm EXCEPT !.edge = @ + 1], [kind |-> "SendToEdge", id |-> m])
  /\ UNCHANGED <<agentVars, center>>

\* Start: a DTMessage with action LifeCycle arrives
CommLifeCycle(info) ==
  /\ comm.running
  /\ comm.n < MaxEvents
  /\ comm' = Handle(dealLifeCycle(comm, info), [kind |-> "LifeCycle", id |-> info])
  /\ UNCHANGED <<agentVars, center>>

\* Start: a DTMessage with action Confirm arrives
CommConfirm(parent) ==
  /\ comm.running
  /\ comm.n < MaxEvents
  /\ comm' = Handle(dealConfirm(comm, parent), [kind |-> "Confirm", id |-> parent])
  /\ UNCHANGED <<agentVars, center>>

\* Start: nothing arrived for 60 seconds
CommCheckConfirm ==
  /\ comm.running
  /\ comm.n < MaxEvents
  /\ comm' = Handle(checkConfirm(comm), [kind |-> "checkConfirm", id |-> ""])
  /\ UNCHANGED <<agentVars, center>>

\* Start: a heart beat arrives; the worker returns when HeartBeat fails or
\* the channel is closed
CommHeartBeat(ok) ==
  /\ comm.running
  /\ comm.n < MaxEvents
  /\ comm' = Handle([comm EXCEPT !.running = ok], [kind |-> "HeartBeat", id |-> ""])
  /\ UNCHANGED <<agentVars, center>>

\* ---------------------------------------------------------------- doApply
\* doApply: Status = InApplying, the message is built from the Application
\* and handed to SendSync
DoApplySend(i) ==
  LET a == sends[i].app IN
  /\ sends[i].pc = "start"
  /\ apps' = [apps EXCEPT ![a].Status = InApplying]
  /\ sends' = [sends EXCEPT ![i] = [pc |-> "sent", app |-> a, Reason |-> apps[a].Reason,
                                    Error |-> apps[a].Error, RespBody |-> apps[a].RespBody]]
  /\ UNCHANGED <<Applications, callers, gc, now, nReq, center, comm>>

\* The Application after doApply's failure branch with the given reason
FailWith(a, reason) == [a EXCEPT !.Status = Failed, !.Reason = reason]

\* The Application after doApply merged the returned Application
Merge(a, ret) ==
  [a EXCEPT !.Status = ret.Status, !.Reason = ret.Reason,
            !.Error = ret.Error, !.RespBody = ret.RespBody]

\* doApply's failure branch without the deferred app.Call()
DoApplyFailNoCall(i) ==
  LET a == sends[i].app IN
  /\ sends[i].pc = "sent"
  /\ \E reason \in {ReasonAccess, ReasonResp} :
       apps' = [apps EXCEPT ![a] = FailWith(apps[a], reason)]
  /\ sends' = [sends EXCEPT ![i] = NoSend]
  /\ UNCHANGED <<Applications, callers, gc, now, nReq, center, comm>>

\* doApply: SendSync timed out or failed, or the reply does not decode
DoApplyFail(i) ==
  LET a == sends[i].app IN
  /\ sends[i].pc = "sent"
  /\ \E reason \in {ReasonAccess, ReasonResp} :
       apps' = [apps EXCEPT ![a] = FailWith(apps[a], reason)]
  /\ sends' = [sends EXCEPT ![i] = [NoSend EXCEPT !.pc = "call", !.app = a]]
  /\ UNCHANGED <<Applications, callers, gc, now, nReq, center, comm>>

\* doApply: the reply arrived and is merged into the local Application
DoApplyReply(i) ==
  LET a == sends[i].app IN
  /\ sends[i].pc = "sent"
  /\ \E ret \in Replies(sends[i]) :
       apps' = [apps EXCEPT ![a] = Merge(apps[a], ret)]
  /\ sends' = [sends EXCEPT ![i] = [NoSend EXCEPT !.pc = "call", !.app = a]]
  /\ UNCHANGED <<Applications, callers, gc, now, nReq, center, comm>>

\* doApply: the deferred app.Call()
DoApplyCall(i) ==
  LET a == sends[i].app IN
  /\ sends[i].pc = "call"
  /\ apps' = [apps EXCEPT ![a] = Call(apps[a])]
  /\ sends' = [sends EXCEPT ![i] = NoSend]
  /\ UNCHANGED <<Applications, callers, gc, now, nReq, center, comm>>

\* --------------------------------------------------------------- Agent.GC
\* the callback's test on one Application at the current time
Expired(a, t) == LastCloseTime(a) # 0 /\ t - LastCloseTime(a) >= GCWindow

\* GC: Range calls back on the entry of f, which has expired
GCVisit(f) ==
  /\ gc.pc = "range"
  /\ Applications[f] # 0
  /\ Expired(apps[Applications[f]], now)
  /\ gc' = [pc |-> "delete", key |-> f]
  /\ UNCHANGED <<Applications, apps, callers, sends, now, nReq, center, comm>>

\* A sweep that finds the expired entry and leaves it in the table
GCDeleteKeeps ==
  /\ gc.pc = "delete"
  /\ gc' = [pc |-> "range", key |-> <<>>]
  /\ UNCHANGED <<Applications, apps, callers, sends, now, nReq, center, comm>>

\* GC: Applications.Delete(key), and Range goes on
GCDelete ==
  /\ gc.pc = "delete"
  /\ Applications' = [Applications EXCEPT ![gc.key] = 0]
  /\ gc' = [pc |-> "range", key |-> <<>>]
  /\ UNCHANGED <<apps, callers, sends, now, nReq, center, comm>>

\* a minute passes
Tick ==
  /\ now < MaxTime
  /\ now' = now + 1
  /\ UNCHANGED <<Applications, apps, callers, sends, gc, nReq, center, comm>>

Next ==
  \/ \E c \in Callers, r \in Requests : GenerateStore(c, r)
  \/ \E c \in Callers, r \in Requests : GenerateLoad(c, r)
  \/ \E c \in Callers : GenerateAdd(c)
  \/ \E c \in Callers : ApplyUnregistered(c)
  \/ \E c \in Callers : ApplyEnter(c)
  \/ \E c \in Callers : ApplyWait(c)
  \/ \E c \in Callers : ApplyReturn(c)
  \/ \E c \in Callers : CloseCall(c)
  \/ \E i \in SendIds : DoApplySend(i)
  \/ \E i \in SendIds : DoApplyFail(i)
  \/ \E i \in SendIds : DoApplyReply(i)
  \/ \E i \in SendIds : DoApplyCall(i)
  \/ \E f \in Fingerprints : GCVisit(f)
  \/ GCDelete
  \/ Tick

Spec == Init /\ [][Next]_vars

\* The transport never answers: every SendSync fails or times out (Next
\* without DoApplyReply). The goroutines and the callers inside Apply keep
\* running, and SendSync returns within its timeout.
LiveNext ==
  \/ \E c \in Callers, r \in Requests : GenerateStore(c, r)
  \/ \E c \in Callers, r \in Requests : GenerateLoad(c, r)
  \/ \E c \in Callers : GenerateAdd(c)
  \/ \E c \in Callers : ApplyUnregistered(c)
  \/ \E c \in Callers : ApplyEnter(c)
  \/ \E c \in Callers : ApplyWait(c)
  \/ \E c \in Callers : ApplyReturn(c)
  \/ \E c \in Callers : CloseCall(c)
  \/ \E i \in SendIds : DoApplySend(i)
  \/ \E i \in SendIds : DoApplyFail(i)
  \/ \E i \in SendIds : DoApplyCall(i)
  \/ \E f \in Fingerprints : GCVisit(f)
  \/ GCDelete
  \/ Tick

LiveSpec ==
  /\ Init
  /\ [][LiveNext]_vars
  /\ \A c \in Callers : WF_vars(ApplyWait(c)) /\ WF_vars(ApplyReturn(c))
  /\ \A i \in SendIds :
       WF_vars(DoApplySend(i)) /\ WF_vars(DoApplyFail(i)) /\ WF_vars(DoApplyCall(i))

\* The Agent with the sweep that NewApplicationAgent starts: wait.Until
\* calls GC again and again, and a sweep that has begun goes on
SweepSpec ==
  /\ Init
  /\ [][LiveNext]_vars
  /\ \A f \in Fingerprints : WF_vars(GCVisit(f))
  /\ WF_vars(GCDelete)

\* Callers that ask for different things: Generate, Apply and Close
DistinctInit ==
  /\ Applications = [f \in DistinctFingerprints |-> 0]
  /\ apps = [a \in AppIds |-> NoApp]
  /\ callers = [c \in Callers |-> IdleCaller]
  /\ sends = [i \in SendIds |-> NoSend]
  /\ gc = [pc |-> "range", key |-> <<>>]
  /\ now = 1
  /\ nReq = 0
  /\ center = IdleCenter
  /\ comm = IdleComm

DistinctNext ==
  \/ \E c \in Callers, r \in DistinctRequests : GenerateStore(c, r)
  \/ \E c \in Callers, r \in DistinctRequests : GenerateLoad(c, r)
  \/ \E c \in Callers : GenerateAdd(c)
  \/ \E c \in Callers : ApplyEnter(c)
  \/ \E c \in Callers : ApplyWait(c)
  \/ \E c \in Callers : ApplyReturn(c)
  \/ \E c \in Callers : CloseCall(c)
  \/ \E i \in SendIds : DoApplySend(i)
  \/ \E i \in SendIds : DoApplyReply(i)
  \/ \E i \in SendIds : DoApplyCall(i)

DistinctSpec == DistinctInit /\ [][DistinctNext]_vars

\* The CommWorker alone, started with the cloud connected or not
CommInit ==
  /\ Applications = [f \in Fingerprints |-> 0]
  /\ apps = [a \in AppIds |-> NoApp]
  /\ callers = [c \in Callers |-> IdleCaller]
  /\ sends = [i \in SendIds |-> NoSend]
  /\ gc = [pc |-> "range", key |-> <<>>]
  /\ now = 1
  /\ nReq = 0
  /\ center = IdleCenter
  /\ \E st \in {Connected, Disconnected} : comm = [IdleComm EXCEPT !.State = st]

CommNext ==
  \/ \E m \in MsgIds, isMessage \in BOOLEAN : CommSendToCloud(m, isMessage)
  \/ \E m \in MsgIds : CommSendToEdge(m)
  \/ \E info \in {CloudConnected, CloudDisconnected, "other"} : CommLifeCycle(info)
  \/ \E parent \in MsgIds \cup {StrangerId} : CommConfirm(parent)
  \/ CommCheckConfirm
  \/ \E ok \in BOOLEAN : CommHeartBeat(ok)

CommSpec == CommInit /\ [][CommNext]_vars

\* Generate, Apply and Close with callers that may call Close a second time
CountNext ==
  \/ \E c \in Callers, r \in Requests : GenerateStore(c, r)
  \/ \E c \in Callers, r \in Requests : GenerateLoad(c, r)
  \/ \E c \in Callers : GenerateAdd(c)
  \/ \E c \in Callers : ApplyEnter(c)
  \/ \E c \in Callers : ApplyWait(c)
  \/ \E c \in Callers : ApplyReturn(c)
  \/ \E c \in Callers : CloseCall(c)
  \/ \E a \in AppIds : CloseAgain(a)
  \/ \E i \in SendIds : DoApplySend(i)
  \/ \E i \in SendIds : DoApplyFail(i)
  \/ \E i \in SendIds : DoApplyReply(i)
  \/ \E i \in SendIds : DoApplyCall(i)

CountSpec == Init /\ [][CountNext]_vars

\* Callers that may call Close a second time, while the clock runs and every
\* SendSync fails
CloseNext ==
  \/ \E c \in Callers, r \in Requests : GenerateStore(c, r)
  \/ \E c \in Callers, r \in Requests : GenerateLoad(c, r)
  \/ \E c \in Callers : GenerateAdd(c)
  \/ \E c \in Callers : ApplyEnter(c)
  \/ \E c \in Callers : ApplyWait(c)
  \/ \E c \in Callers : ApplyReturn(c)
  \/ \E c \in Callers : CloseCall(c)
  \/ \E a \in AppIds : CloseAgain(a)
  \/ \E i \in SendIds : DoApplySend(i)
  \/ \E i \in SendIds : DoApplyFail(i)
  \/ \E i \in SendIds : DoApplyCall(i)
  \/ Tick

CloseSpec == Init /\ [][CloseNext]_vars

\* Center alone: messages arrive one at a time (Process is not parallel),
\* with the feature gate on or off
CenterInit ==
  /\ Applications = [f \in Fingerprints |-> 0]
  /\ apps = [a \in AppIds |-> NoApp]
  /\ callers = [c \in Callers |-> IdleCaller]
  /\ sends = [i \in SendIds |-> NoSend]
  /\ gc = [pc |-> "range", key |-> <<>>]
  /\ now = 1
  /\ nReq = 0
  /\ \E g \in BOOLEAN : center = [IdleCenter EXCEPT !.gate = g]
  /\ comm = IdleComm

\* The messages the dispatch loop can hand to Process now
Arriving == IF center.pc = "idle" /\ center.n < MaxMessages THEN Messages ELSE {}

CenterNext ==
  \/ \E m \in Arriving : CenterDrop(m)
  \/ \E m \in Arriving : CenterReceive(m)
  \/ CenterClient
  \/ CenterAuthorize
  \/ CenterDispatch
  \/ CenterRespond

CenterSpec == CenterInit /\ [][CenterNext]_vars

\* ----------------------------------------------------------------- claims
\* The callers that hold a citation of fingerprint f handed out by Generate
Holding(f) ==
  {c \in Callers : /\ callers[c].pc \in {"generated", "waitcall", "blocked", "applied"}
                   /\ apps[callers[c].app].ID = f}

\* Some caller has called Close on an Application of fingerprint f
ClosedOn(f) == \E a \in AppIds : apps[a].ID = f /\ apps[a].calls > 0

\* The Application objects created for fingerprint f
Instances(f) == {a \in AppIds : apps[a].ID = f}

\* The Application Apply works on for caller c: the table's entry for the
\* fingerprint of the Application the caller holds
Target(c) == Applications[apps[callers[c].app].ID]

Outstanding(f) ==
  {i \in SendIds : sends[i].pc = "sent" /\ apps[sends[i].app].ID = f}

\* C2: at most one send-and-await-reply is outstanding per fingerprint.
C2_AtMostOneInFlight ==
  \A f \in Fingerprints : Cardinality(Outstanding(f)) <= 1

\* C3: an entry that GC removes from the table has a zero count and dropped
\* to zero at least the grace window ago.
C3_NoPrematureGC ==
  [][\A f \in Fingerprints :
       (Applications[f] # 0 /\ Applications'[f] = 0) =>
         /\ apps[Applications[f]].count = 0
         /\ now - apps[Applications[f]].timestamp >= GCWindow]_vars

\* C4: when the transport never answers, a send that fails sets the
\* Application to Failed with a non-empty Reason, every caller waiting in
\* Apply returns, and no Application stays InApplying.
C4_TimeoutLiveness ==
  /\ [][\A i \in SendIds :
         (sends[i].pc = "sent" /\ sends'[i].pc # "sent") =>
           /\ apps'[sends[i].app].Status = Failed
           /\ apps'[sends[i].app].Reason # NoReason]_vars
  /\ \A c \in Callers :
       (callers[c].pc \in {"waitcall", "blocked"}) ~> (callers[c].pc = "applied")
  /\ \A a \in AppIds :
       (apps[a].Status = InApplying) ~> (apps[a].Status # InApplying)

C4_Witness ==
  \E c \in Callers :
    /\ callers[c].pc = "applied"
    /\ callers[c].ret.waited
    /\ callers[c].ret.status = Failed
    /\ callers[c].ret.val # NoReason

\* The order of the statuses
Rank(st) ==
  CASE st = PreApplying -> 0
    [] st = InApplying -> 1
    [] st = InProcessing -> 2
    [] st \in {Approved, Rejected, Failed} -> 3
    [] st = Completed -> 4

\* C5: every change of an Application's Status moves forward in the order,
\* except for the start of a new cycle on a Completed Application.
C5_StatusMonotonic ==
  [][\A a \in AppIds :
       (apps[a] # NoApp /\ apps'[a].Status # apps[a].Status) =>
         \/ Rank(apps'[a].Status) > Rank(apps[a].Status)
         \/ apps[a].Status = Completed /\ apps'[a].Status = InApplying]_vars

\* C6: a call of Apply that waited returns with the Status it inspects being
\* Approved, Rejected or Failed.
C6_ApplyReturnsOutcome ==
  \A c \in Callers :
    (callers[c].pc = "applied" /\ callers[c].ret.waited) =>
      callers[c].ret.status \in {Approved, Rejected, Failed}

\* C7: after waiting, Apply returns no error exactly when the Status is
\* Approved, the stored Error when it is Rejected, and an error made of the
\* stored Reason otherwise.
C7_ApplyResultMapping ==
  [][\A c \in Callers :
       (callers[c].pc = "blocked" /\ callers'[c].pc = "applied") =>
         LET a == apps[callers[c].tgt]
             ret == callers'[c].ret IN
         /\ (ret.kind = "nil") <=> (a.Status = Approved)
         /\ (a.Status = Rejected) => (ret.kind = "error" /\ ret.val = a.Error)
         /\ (a.Status \notin {Approved, Rejected}) =>
              (ret.kind = "reason" /\ ret.val = a.Reason)]_vars

C7_Witness ==
  \E c \in Callers :
    /\ callers[c].pc = "applied"
    /\ callers[c].ret.waited
    /\ callers[c].ret.kind = "error"
    /\ callers[c].ret.val = ApiError

\* C8: Apply on a registered Application that is Approved, Rejected or
\* Failed returns in that step (no error, the stored Error, the stored
\* Reason), starts no doApply, does not wait and changes no Application.
C8_CachedOutcomes ==
  [][\A c \in Callers :
       (/\ callers[c].pc = "generated"
        /\ callers'[c].pc # "generated"
        /\ Target(c) # 0
        /\ apps[Target(c)].Status \in {Approved, Rejected, Failed}) =>
         LET a == apps[Target(c)]
             ret == callers'[c].ret IN
         /\ callers'[c].pc = "applied"
         /\ ~ret.waited
         /\ a.Status = Approved => ret.kind = "nil"
         /\ a.Status = Rejected => (ret.kind = "error" /\ ret.val = a.Error)
         /\ a.Status = Failed => (ret.kind = "reason" /\ ret.val = a.Reason)
         /\ sends' = sends
         /\ apps' = apps]_vars

C8_Witness ==
  \E c \in Callers :
    /\ callers[c].pc = "applied"
    /\ ~callers[c].ret.waited
    /\ callers[c].ret.status = Rejected
    /\ callers[c].ret.kind = "error"

\* A doApply goroutine is started in this step
SendStarted == \E i \in SendIds : sends[i].pc = "none" /\ sends'[i].pc = "start"

\* C9, as claimed: Apply on an Application that is still Failed sends the
\* request again.
C9_FailedIsResent ==
  [][\A c \in Callers :
       (/\ callers[c].pc = "generated"
        /\ callers'[c].pc # "generated"
        /\ Target(c) # 0
        /\ apps[Target(c)].Status = Failed) => SendStarted]_vars

\* C9, amended: Apply on an Application that is still Failed returns the
\* stored Reason and starts no doApply; a doApply is started only on an
\* Application that is PreApplying or Completed.
C9_FailedIsNotResent ==
  [][/\ \A c \in Callers :
          (/\ callers[c].pc = "generated"
           /\ callers'[c].pc # "generated"
           /\ Target(c) # 0
           /\ apps[Target(c)].Status = Failed) =>
            /\ ~SendStarted
            /\ callers'[c].ret.kind = "reason"
            /\ callers'[c].ret.val = apps[Target(c)].Reason
     /\ \A i \in SendIds :
          (sends[i].pc = "none" /\ sends'[i].pc = "start") =>
            apps[sends'[i].app].Status \in {PreApplying, Completed}]_vars

C9_Witness ==
  \E c \in Callers :
    /\ callers[c].pc = "applied"
    /\ ~callers[c].ret.waited
    /\ callers[c].ret.status = Failed
    /\ callers[c].ret.kind = "reason"
    /\ \A i \in SendIds : sends[i] = NoSend

\* C10: the count is the number of citations Generate handed out minus the
\* number of Close calls that found it above zero; it is never negative and
\* never more than the citations handed out.
C10_RefCountAccounting ==
  \A a \in AppIds :
    apps[a] # NoApp =>
      /\ apps[a].count = apps[a].handed - apps[a].closed
      /\ apps[a].count >= 0
      /\ apps[a].count <= apps[a].handed

\* a Close call found the count at zero and left it there
C10_Witness ==
  \E a \in AppIds :
    /\ apps[a].handed >= 2
    /\ apps[a].closed = apps[a].handed
    /\ apps[a].calls > apps[a].closed
    /\ apps[a].count = 0

\* C11: a Close call that takes the count to zero sets Status to Completed,
\* one that leaves it above zero leaves Status unchanged, one that finds it
\* at zero changes nothing; and LastCloseTime, when it is not the zero time,
\* is the time of the latest drop of the count to zero.
C11_CloseContract ==
  [][\A a \in AppIds :
       apps[a] # NoApp =>
         LET p == apps[a]
             q == apps'[a] IN
         /\ (q.calls = p.calls + 1 /\ p.count > 0) =>
              /\ q.count = p.count - 1
              /\ q.Status = (IF q.count = 0 THEN Completed ELSE p.Status)
         /\ (q.calls = p.calls + 1 /\ p.count = 0) =>
              /\ q.count = 0
              /\ q.Status = p.Status
              /\ q.timestamp = p.timestamp
         /\ (p.count > 0 /\ q.count = 0) => LastCloseTime(q) = now
         /\ (p.count = 0 /\ q.count = 0) => LastCloseTime(q) = LastCloseTime(p)
         /\ q.count > 0 => LastCloseTime(q) = 0]_vars

\* a Close found the count at zero, later than the drop to zero
C11_Witness ==
  \E a \in AppIds :
    /\ apps[a].handed >= 2
    /\ apps[a].count = 0
    /\ apps[a].calls > apps[a].closed
    /\ LastCloseTime(apps[a]) # 0
    /\ LastCloseTime(apps[a]) < now
    /\ apps[a].Status = Completed

\* Center has finished with a message
Handled == center.pc = "idle" /\ center.msg # NoMessage

\* C12: for a message that decodes, Process calls Response exactly once, at
\* its end: Approved with the result when ProcessApplication returned no
\* error, Rejected with the error when it returned one. A message that does
\* not decode gets no Response and ProcessApplication is not called.
C12_ProcessResponse ==
  /\ Len(center.out) <= 1
  /\ center.pc # "idle" => center.out = <<>>
  /\ (Handled /\ center.msg.decodes) =>
       /\ Len(center.out) = 1
       /\ center.out[1].Status \in {Approved, Rejected}
       /\ center.ret.err = NilErr =>
            /\ center.out[1].Status = Approved
            /\ center.ret.hasResp => center.out[1].RespBody = ObjBody
       /\ center.ret.err # NilErr =>
            /\ center.out[1].Status = Rejected
            /\ center.ret.err.kind = "api" => center.out[1].Error = center.ret.err.text
            /\ center.ret.err.kind = "plain" => center.out[1].Reason = center.ret.err.text
  /\ (Handled /\ ~center.msg.decodes) =>
       /\ center.out = <<>>
       /\ center.log = <<>>
       /\ center.app = NoCenterApp
       /\ center.ret = NoRetval

C12_Witness ==
  /\ Handled
  /\ center.msg.decodes
  /\ center.ret.err = ErrNotFound
  /\ Len(center.out) = 1
  /\ center.out[1].Status = Rejected
  /\ center.out[1].Error = ErrNotFound.text

\* The calls of the message in process that are calls on the resource API,
\* and those that register a listener
DataCalls == {i \in 1..Len(center.log) : center.log[i].op \in Verbs}
ListenerCalls == {i \in 1..Len(center.log) : center.log[i].op = "AddListener"}

\* C13: for verb watch no call on the resource API is made, and when
\* ProcessApplication succeeds exactly one listener was registered, whose
\* label selector is the requested one and whose field selector is the
\* requested one, with metadata.namespace = ns added exactly when the key
\* has a namespace ns.
C13_WatchRegistration ==
  center.app.Verb = Watch =>
    /\ DataCalls = {}
    /\ Cardinality(ListenerCalls) <= 1
    /\ (Handled /\ center.ret.err = NilErr) =>
         /\ center.app.Option.ok
         /\ Cardinality(ListenerCalls) = 1
         /\ \A i \in ListenerCalls :
              LET l == center.log[i].listener IN
              /\ l.nodename = center.app.Nodename
              /\ l.Label = center.app.Option.Label
              /\ center.app.Key.ns = "" => l.Field = center.app.Option.Field
              /\ center.app.Key.ns # "" =>
                   l.Field = center.app.Option.Field \cup
                               {"metadata.namespace=" \o center.app.Key.ns}

C13_Witness ==
  /\ Handled
  /\ center.app.Verb = Watch
  /\ center.app.Key.ns = "default"
  /\ center.app.Option.Field # {}
  /\ center.ret.err = NilErr
  /\ \E i \in ListenerCalls :
       "metadata.namespace=default" \in center.log[i].listener.Field

\* The access reviews made for the message in process
ReviewCalls == {i \in 1..Len(center.log) : center.log[i].op = "review"}

\* Every listener was registered after an access review made with the
\* bearer token of the Application, for a token the API server allows
ListenerAfterReview ==
  \A i \in ListenerCalls :
    \E j \in ReviewCalls :
      /\ j < i
      /\ center.log[j].client.token = generateNewConfig(center.app.Token).BearerToken
      /\ center.log[j].client.token \in Authorized

\* ProcessApplication returned the error of authorizeApplication
ReviewRefused ==
  /\ center.pc \in {"respond", "idle"}
  /\ center.ret.err \in {ErrToken, ErrDenied, ErrNet}

\* C14, as claimed: for verb watch a listener is registered only after an
\* access review for the token allowed the request.
C14_WatchAuthorizationMandatory ==
  center.app.Verb = Watch => ListenerAfterReview

\* C14, amended: with the RequireAuthorization feature enabled, a listener
\* is registered only after an access review for the token allowed the
\* request, and when the review refuses or fails no listener is registered,
\* no call on the resource API is made and the reply is Rejected; with the
\* feature disabled no review is made.
C14_WatchAuthorizationWhenEnabled ==
  center.app.Verb = Watch =>
    /\ center.gate => ListenerAfterReview
    /\ (center.gate /\ ReviewRefused) =>
         /\ ListenerCalls = {}
         /\ DataCalls = {}
         /\ Handled => (Len(center.out) = 1 /\ center.out[1].Status = Rejected)
    /\ (center.gate /\ generateNewConfig(center.app.Token).BearerToken \notin Authorized) =>
         ListenerCalls = {}
    /\ ~center.gate => ReviewCalls = {}

C14_Witness ==
  /\ Handled
  /\ center.gate
  /\ center.app.Verb = Watch
  /\ ReviewCalls # {}
  /\ ListenerCalls # {}
  /\ center.out[1].Status = Approved

\* The bearer token of the Application in process ("" when it is malformed)
Bearer == generateNewConfig(center.app.Token).BearerToken

\* A delete with the feature enabled and a token the API server does not allow
UnauthorizedDelete ==
  /\ center.gate
  /\ center.app.Verb = Delete
  /\ Bearer \notin Authorized

\* What Agent.Apply returns to a waiting caller once doApply merged the reply
Surfaced(reply) == WaitResult(Merge(newApplication(ReqGet), reply))

\* C15, as claimed: an unauthorized delete is answered Rejected and the
\* delete operation of the resource API is never invoked for it.
C15_UnauthorizedDeleteNotInvoked ==
  UnauthorizedDelete =>
    /\ DataCalls = {}
    /\ Handled => center.out[1].Status = Rejected

\* C15, amended: an unauthorized delete is answered Rejected; the delete is
\* invoked on the resource API only through a client bound to the caller's
\* token (not at all when the token is malformed), never through the shared
\* default client; the API server's denial comes back as the structured
\* Error, which Apply returns.
C15_UnauthorizedDeleteRejected ==
  UnauthorizedDelete =>
    /\ \A i \in DataCalls :
         /\ center.log[i].op = Delete
         /\ center.log[i].client = [scoped |-> TRUE, token |-> Bearer]
    /\ Cardinality(DataCalls) <= 1
    /\ generateNewConfig(center.app.Token).err # NilErr => DataCalls = {}
    /\ Handled =>
         /\ center.ret.err # NilErr
         /\ center.out[1].Status = Rejected
         /\ Surfaced(center.out[1]).kind = "error"
         /\ center.ret.err = ErrForbidden =>
              /\ center.out[1].Error = ErrForbidden.text
              /\ Surfaced(center.out[1]).val = ErrForbidden.text

C15_Witness ==
  /\ Handled
  /\ UnauthorizedDelete
  /\ center.app.Token = TokenGuest
  /\ DataCalls # {}
  /\ center.out[1].Status = Rejected
  /\ center.out[1].Error = ErrForbidden.text

\* ProcessApplication has returned for the message in process
Returned == center.pc \in {"respond", "idle"} /\ center.msg.decodes

\* C16, as claimed: a verb outside the set makes ProcessApplication fail
\* with the unsupported-verb error, with no call on the resource API and no
\* listener, and the reply is Rejected.
C16_UnsupportedVerbError ==
  center.app.Verb = OtherVerb =>
    /\ DataCalls = {}
    /\ ListenerCalls = {}
    /\ Returned => center.ret.err = ErrUnsupported
    /\ Handled => center.out[1].Status = Rejected

\* C16, amended: a verb outside the set makes ProcessApplication fail, with
\* no call on the resource API and no listener, and the reply is Rejected
\* with the error as Reason; the error is the unsupported-verb error unless
\* the feature is enabled and the token is malformed, when it is the token
\* error of createKubeClient.
C16_UnsupportedVerbFails ==
  center.app.Verb = OtherVerb =>
    /\ DataCalls = {}
    /\ ListenerCalls = {}
    /\ ReviewCalls = {}
    /\ Returned =>
         center.ret.err =
           (IF center.gate /\ generateNewConfig(center.app.Token).err # NilErr
            THEN ErrToken ELSE ErrUnsupported)
    /\ Handled =>
         /\ center.out[1].Status = Rejected
         /\ center.out[1].Reason = center.ret.err.text

C16_Witness ==
  /\ Handled
  /\ center.app.Verb = OtherVerb
  /\ center.gate
  /\ center.app.Token = TokenAdmin
  /\ center.ret.err = ErrUnsupported
  /\ center.out[1].Status = Rejected
  /\ center.out[1].Reason = ErrUnsupported.text

\* C17: the ID of an Application, once computed, never changes (whatever
\* happens to its status, count or context), it is the Identifier of its
\* identity fields, and Applications built from the same fields have the
\* same ID.
C17_FingerprintStability ==
  [][\A a \in AppIds :
       apps'[a] # NoApp =>
         /\ apps[a] # NoApp => apps'[a].ID = apps[a].ID
         /\ apps'[a].ID = Identifier(apps'[a].req)
         /\ \A b \in AppIds :
              (apps'[b] # NoApp /\ apps'[b].req = apps'[a].req) =>
                apps'[b].ID = apps'[a].ID]_vars

\* two Applications of the same fields, the older one closed and removed
\* from the table, the newer one restarted by Reset
C17_Witness ==
  \E a, b \in AppIds :
    /\ a # b
    /\ apps[a] # NoApp
    /\ apps[b] # NoApp
    /\ apps[a].req = apps[b].req
    /\ apps[a].ID = apps[b].ID
    /\ Applications[apps[a].ID] = b
    /\ apps[b].calls > 0
    /\ apps[b].count > 0
    /\ ~apps[b].done

\* Caller c waits in Apply and the context it waits on is done
Released(c) ==
  /\ callers[c].pc = "blocked"
  /\ callers[c].rel \/ apps[callers[c].tgt].done

\* C18: a caller waiting in Apply is released only when the outcome of the
\* cycle is written: the Status is Approved, Rejected or Failed and no
\* doApply of the Application has still to write its outcome.
C18_OutcomeBeforeSignal ==
  [][\A c \in Callers :
       (~Released(c) /\ Released(c)') =>
         /\ apps'[callers'[c].tgt].Status \in {Approved, Rejected, Failed}
         /\ \A i \in SendIds :
              sends'[i].app = callers'[c].tgt => sends'[i].pc \notin {"start", "sent"}]_vars

\* C19: the completion signal, once fired, stays fired until Reset starts a
\* new cycle on a Completed Application, so it fires at most once in a
\* cycle; a doApply that has written Approved, Rejected or Failed goes on to
\* Call, which fires the signal and changes nothing else; and a Call that
\* finds the signal fired changes nothing at all.
C19_SingleFireSignal ==
  [][/\ \A a \in AppIds :
          /\ Call(Call(apps[a])) = Call(apps[a])
          /\ (apps[a].done /\ ~apps'[a].done) =>
               /\ apps[a].Status = Completed
               /\ \E c \in Callers : callers[c].pc = "generated" /\ callers'[c].pc = "waitcall"
     /\ \A i \in SendIds :
          LET a == sends[i].app IN
          /\ (sends[i].pc = "sent" /\ sends'[i].pc # "sent") =>
               /\ apps'[a].Status \in {Approved, Rejected, Failed}
               /\ sends'[i].pc = "call"
               /\ sends'[i].app = a
          /\ (sends[i].pc = "call" /\ sends'[i].pc # "call") =>
               /\ apps' = [apps EXCEPT ![a].done = TRUE]
               /\ apps[a].done => (apps' = apps /\ callers' = callers)]_vars

\* a second doApply is about to Call on a signal that has fired
C19_Witness ==
  \E i \in SendIds :
    /\ sends[i].pc = "call"
    /\ apps[sends[i].app].done
    /\ apps[sends[i].app].Status \in {Approved, Rejected, Failed}

\* C20: Apply changes the Application only by Reset, and only when it finds
\* it Completed; Reset re-arms the signal, empties Reason and RespBody and
\* leaves every other field as it was; and a caller that waits on the
\* re-armed signal is released only by the Call of a doApply.
C20_ResetContract ==
  [][/\ \A c \in Callers :
          (callers[c].pc = "generated" /\ callers'[c].pc # "generated" /\ Target(c) # 0) =>
            LET p == apps[Target(c)]
                q == apps'[Target(c)] IN
            /\ q # p => p.Status = Completed
            /\ p.Status = Completed =>
                 q = [p EXCEPT !.done = FALSE, !.Reason = NoReason, !.RespBody = NoBody]
            /\ \A b \in AppIds : b # Target(c) => apps'[b] = apps[b]
     /\ \A d \in Callers :
          (callers[d].pc = "blocked" /\ ~Released(d) /\ Released(d)') =>
            \E i \in SendIds :
              /\ sends[i].pc = "call"
              /\ sends'[i].pc # "call"
              /\ sends[i].app = callers[d].tgt]_vars

\* A token of the form "Bearer <non-empty token>" (the scheme in any case)
WellFormedToken(raw) ==
  /\ Len(raw) >= 2
  /\ raw[1] \in {"Bearer", "bearer"}
  /\ raw[2] # ""

\* An Application of a verb other than watch is in process
NonWatch == center.app # NoCenterApp /\ center.app.Verb # Watch

\* C21: with the authorization feature enabled, every call on the resource
\* API made for an Application whose verb is not watch goes through a client
\* bound to the Application's own bearer token, never through the shared
\* default client, and a token that is not "Bearer <non-empty token>" makes
\* ProcessApplication fail with the token error, the reply being Rejected,
\* with no call made; with the feature disabled every call goes through
\* the shared default client.
C21_TokenScopedClient ==
  NonWatch =>
    /\ center.gate =>
         \A i \in DataCalls :
           /\ center.log[i].client # DefaultClient
           /\ center.log[i].client.scoped
           /\ WellFormedToken(center.app.Token)
           /\ center.log[i].client.token = center.app.Token[2]
    /\ (center.gate /\ ~WellFormedToken(center.app.Token)) =>
         /\ center.log = <<>>
         /\ Returned => center.ret.err = ErrToken
         /\ Handled => center.out[1].Status = Rejected
    /\ ~center.gate =>
         \A i \in DataCalls : center.log[i].client = DefaultClient

C21_Witness ==
  /\ Handled
  /\ NonWatch
  /\ center.gate
  /\ center.app.Token = TokenGuest
  /\ center.app.Verb = Get
  /\ DataCalls # {}
  /\ center.log[1].client = [scoped |-> TRUE, token |-> "guest"]

\* A malformed token was refused with the feature enabled
C21_WitnessMalformed ==
  /\ Handled
  /\ NonWatch
  /\ center.gate
  /\ center.app.Token = TokenBasic
  /\ center.out[1].Status = Rejected
  /\ center.out[1].Reason = ErrToken.text

\* C22: a reply that carries a payload for verb get or list carries it
\* redacted by the response filter for the Application's node, and RespBody
\* is its serialization; the payload of any other verb is serialized as the
\* API server returned it; a reply without a payload has had nothing
\* filtered and its RespBody is the one received.
C22_ResponseFiltering ==
  (Handled /\ center.msg.decodes) =>
    LET reply == center.out[1] IN
    /\ (center.ret.hasResp /\ center.app.Verb \in {Get, List}) =>
         /\ reply.payload = MessageFilter(RawContent, center.msg.app.Nodename)
         /\ reply.payload.redacted = reply.node
         /\ reply.RespBody = ObjBody
    /\ (center.ret.hasResp /\ center.app.Verb \notin {Get, List}) =>
         /\ reply.payload = RawContent
         /\ reply.RespBody = ObjBody
    /\ ~center.ret.hasResp =>
         /\ reply.payload = NoContent
         /\ reply.RespBody = center.msg.app.RespBody

C22_Witness ==
  /\ Handled
  /\ center.app.Verb = List
  /\ center.app.Nodename = "edge2"
  /\ center.ret.hasResp
  /\ center.out[1].payload = [present |-> TRUE, redacted |-> "edge2"]
  /\ center.out[1].RespBody = ObjBody

\* A payload of a verb other than get and list went out unfiltered
C22_WitnessUnfiltered ==
  /\ Handled
  /\ center.app.Verb = Patch
  /\ center.ret.hasResp
  /\ center.out[1].payload = RawContent

\* C23: a reply carries as parent ID the ID of the request message being
\* answered and is addressed to the node of the Application that message
\* carried; for one request message there is at most one attempt to send
\* a reply, whether the send succeeds or fails, and none before
\* ProcessApplication has returned.
C23_ReplyCorrelation ==
  /\ Len(center.out) <= 1
  /\ \A i \in 1..Len(center.out) :
       /\ center.msg.decodes
       /\ center.pc = "idle"
       /\ center.out[i].parent = center.msg.id
       /\ center.out[i].node = center.msg.app.Nodename

C23_Witness ==
  /\ Handled
  /\ center.msg.id = "m2"
  /\ center.msg.app.Nodename = "edge1"
  /\ Len(center.out) = 1
  /\ center.out[1].parent = "m2"
  /\ center.out[1].node = "edge1"
  /\ ~center.out[1].sent

\* Application a is in the live table under fingerprint f, unreferenced,
\* its last close at least five minutes in the past
Reclaimable(f, a) ==
  /\ Applications[f] = a
  /\ apps[a].count = 0
  /\ apps[a].timestamp # 0
  /\ now - apps[a].timestamp >= GCWindow

\* C24: a sweep deletes the entry of every Application it finds with a
\* reference count of zero and a last close at least five minutes in the
\* past, so with GC running periodically such an Application is
\* eventually out of the live table unless it is referenced again.
C24_EventualReclamation ==
  /\ [][(gc.pc = "delete" /\ gc'.pc = "range") => Applications'[gc.key] = 0]_vars
  /\ \A f \in Fingerprints, a \in AppIds :
       Reclaimable(f, a) ~> (Applications[f] # a \/ apps[a].count > 0)

\* An Application that was closed has expired and a sweep has deleted it
C24_Witness ==
  \E a \in AppIds :
    /\ apps[a].ID # <<>>
    /\ apps[a].count = 0
    /\ apps[a].timestamp # 0
    /\ now - apps[a].timestamp >= GCWindow
    /\ \A f \in Fingerprints : Applications[f] = 0
    /\ gc.pc = "range"

\* C25: an Application whose reference count has dropped to zero (count 0
\* and a last close recorded) has Status Completed.
C25_ZeroCountCompleted ==
  \A a \in AppIds :
    (apps[a].count = 0 /\ apps[a].timestamp # 0) => apps[a].Status = Completed

\* C26: an error that Apply has returned carries a non-empty explanation:
\* the structured Error of a Rejected Application is not the zero
\* StatusError, and the text of any other error is not empty.
C26_ErrorsCarryCause ==
  \A c \in Callers :
    callers[c].pc = "applied" =>
      /\ callers[c].ret.kind = "error" => callers[c].ret.val # NoError
      /\ callers[c].ret.kind = "reason" => callers[c].ret.val # NoReason

\* C27: the outcome of a cycle is produced by that cycle: when doApply
\* merges a reply Rejected whose Reason Center wrote for this request (it is
\* not the Reason that was sent, so the cause is not a structured error),
\* the Error merged, which is what Apply returns for Rejected, is not a
\* structured error, which only an earlier outcome can have stored.
C27_NoOutcomeLeak ==
  [][\A i \in SendIds :
       (/\ sends[i].pc = "sent"
        /\ sends'[i].pc = "call"
        /\ apps'[sends[i].app].Status = Rejected
        /\ apps'[sends[i].app].Reason # sends[i].Reason)
       => /\ apps'[sends[i].app].Error = NoError
          /\ WaitResult(apps'[sends[i].app]).val = NoError]_vars

\* Caller c holds an Application that Generate handed out
Cited(c) == callers[c].pc \in {"generated", "waitcall", "blocked", "applied"}

\* C28: callers whose requests differ in an identity-forming field hold
\* Applications with different identifiers, hence different Applications
\* with their own reference count, and what Apply returns to a caller is
\* the outcome of an Application built from its own request.
C28_NoCoalescing ==
  \A c \in Callers :
    Cited(c) =>
      /\ apps[callers[c].app].req = callers[c].req
      /\ \A d \in Callers :
           (Cited(d) /\ callers[d].req # callers[c].req) =>
             /\ apps[callers[d].app].ID # apps[callers[c].app].ID
             /\ callers[d].app # callers[c].app

\* This step is a turn of the worker's loop that handled an event of the
\* kind, and one that handled an event of the kind for message m
Turn(kind) == comm'.n = comm.n + 1 /\ comm'.last.kind = kind
TurnFor(kind, m) == Turn(kind) /\ comm'.last.id = m

\* A message handled by dealSendToCloud while not Disconnected is sent to
\* the hub and is in the ConfirmMap; it leaves the ConfirmMap only when a
\* Confirm with its ID as parent ID is handled, and that Confirm takes it
\* out; a message that is not in the ConfirmMap is sent only when
\* dealSendToCloud handles it anew
SentAndKept ==
  \A m \in MsgIds :
    /\ (TurnFor("SendToCloud", m) /\ comm.State # Disconnected) =>
         /\ comm'.hub[m] = comm.hub[m] + 1
         /\ m \in comm'.ConfirmMap
    /\ (m \in comm.ConfirmMap /\ m \notin comm'.ConfirmMap) => TurnFor("Confirm", m)
    /\ TurnFor("Confirm", m) => m \notin comm'.ConfirmMap
    /\ (m \notin comm.ConfirmMap /\ comm'.hub[m] # comm.hub[m]) => TurnFor("SendToCloud", m)

\* C29, as claimed: a message sent while connected stays in the ConfirmMap
\* until its Confirm is handled, every checkConfirm pass sends each message
\* of the ConfirmMap to the hub once more, and a confirmed message is not
\* sent again.
C29_ConfirmRetry ==
  [][/\ SentAndKept
     /\ Turn("checkConfirm") =>
          /\ comm'.ConfirmMap = comm.ConfirmMap
          /\ \A m \in MsgIds :
               comm'.hub[m] = comm.hub[m] + (IF m \in comm.ConfirmMap THEN 1 ELSE 0)]_vars

\* C29, amended: a message sent while connected stays in the ConfirmMap
\* until its Confirm is handled; a checkConfirm pass made while the state
\* is not Disconnected sends each message of the ConfirmMap to the hub once
\* more, a pass made while Disconnected sends nothing, and either leaves
\* the ConfirmMap as it is; a confirmed message is not sent again.
C29_ConfirmRetryWhileConnected ==
  [][/\ SentAndKept
     /\ Turn("checkConfirm") =>
          /\ comm'.ConfirmMap = comm.ConfirmMap
          /\ comm'.State = comm.State
          /\ \A m \in MsgIds :
               comm'.hub[m] = comm.hub[m] +
                 (IF m \in comm.ConfirmMap /\ comm.State # Disconnected THEN 1 ELSE 0)]_vars

\* A pass has sent the unconfirmed message again and not the confirmed one
C29_Witness ==
  /\ comm.last.kind = "checkConfirm"
  /\ comm.State = Connected
  /\ "a" \in comm.ConfirmMap
  /\ comm.hub["a"] = 2
  /\ "b" \notin comm.ConfirmMap
  /\ comm.hub["b"] = 1

\* A pass made while Disconnected has sent nothing
C29_WitnessDisconnected ==
  /\ comm.last.kind = "checkConfirm"
  /\ comm.State = Disconnected
  /\ "a" \in comm.ConfirmMap
  /\ comm.hub["a"] = 1

====
